---- MODULE Spec2Model ----
(***************************************************************************)
(* The rules engine of strato (src/strato): cards, deck, discard pile,     *)
(* player spreads, players and the StratoGame turn state machine.          *)
(*                                                                         *)
(* An Option<T> of the source is a sequence of length at most one:         *)
(* None is <<>> and Some(x) is <<x>>.  Indices are 0-based as in the       *)
(* source; the players vector is a sequence, so the player at index i is   *)
(* players[i + 1].                                                         *)
(***************************************************************************)
EXTENDS Integers, Sequences, FiniteSets, TLC

VARIABLES
    state,              \* StratoGame.state
    players,            \* GameContext.players
    current_player_idx, \* GameContext.current_player_idx
    deck,               \* GameContext.deck, top of the deck last
    discard_pile,       \* GameContext.discard_pile, top of the pile last
    round,              \* GameContext.round
    finisher_idx,       \* GameContext.finisher_idx
    winner_idx,         \* GameContext.winner_idx
    call,               \* the public operation in flight, with its arguments
    result,             \* what that operation returned
    turns,              \* how many start_player_turn calls have succeeded
    turn_open,          \* the index of the player whose turn was started and not yet ended
    player_spread,      \* a PlayerSpread of its own, outside any game
    ret,                \* what the operation on that spread returned besides its Result
    subscriber,         \* StratoGame.subscriber: the observer, named
    delivered,          \* the events the operation in flight has emitted, with their receiver
    lone_player         \* a Player of its own, outside any game

vars == <<state, players, current_player_idx, deck, discard_pile, round,
          finisher_idx, winner_idx, call, result, turns, turn_open, player_spread, ret,
          subscriber, delivered, lone_player>>

game == <<state, players, current_player_idx, deck, discard_pile, round,
          finisher_idx, winner_idx>>

(***************************************************************************)
(* Bounds of the model.                                                    *)
(***************************************************************************)
\* players registered in a game that is played
MaxPlayers == 2
\* players registered in a game that is only started
MaxDealPlayers == 13
\* turns started in a game that is played with free choice of the actions
MaxTurns == 2

(***************************************************************************)
(* Program constants.                                                      *)
(***************************************************************************)
FULL_SIZE == 150
Rows == 3
Columns == 4
CardValues == -2 .. 12

None == <<>>
Some(x) == <<x>>
IsSome(o) == o # <<>>
Unwrap(o) == o[1]

Min(a, b) == IF a < b THEN a ELSE b

(***************************************************************************)
(* Card                                                                    *)
(***************************************************************************)
Card(v) == [value |-> v, flipped |-> FALSE]

flip(card) == [card EXCEPT !.flipped = TRUE]

(***************************************************************************)
(* Deck                                                                    *)
(***************************************************************************)
DefaultDeck == [k \in 1 .. FULL_SIZE |-> Card(((k - 1) % 15) - 2)]

\* left_hand.pop() n times: the cards popped, in the order they are popped
PopN(hand, n) == [i \in 1 .. n |-> hand[Len(hand) + 1 - i]]

\* the n-th number (from 0) the generator hands out of a cyclic sequence
Draw(numbers, n) == numbers[(n % Len(numbers)) + 1]

\* one pass of the loop that zips the two hands together: up to l cards popped off
\* the left hand, then up to r off the right hand, pushed in the order they are popped
ZipStep(hands, l, r) ==
    [left_hand |-> SubSeq(hands.left_hand, 1, Len(hands.left_hand) - l),
     right_hand |-> SubSeq(hands.right_hand, 1, Len(hands.right_hand) - r),
     shuffled |-> hands.shuffled \o PopN(hands.left_hand, l) \o PopN(hands.right_hand, r)]

RECURSIVE Zip(_, _, _)
\* the loop, until both hands are empty; takes are the numbers of cards to take
Zip(hands, takes, n) ==
    IF hands.left_hand = <<>> /\ hands.right_hand = <<>>
    THEN hands.shuffled
    ELSE Zip(ZipStep(hands, Min(Draw(takes, n), Len(hands.left_hand)),
                     Min(Draw(takes, n + 1), Len(hands.right_hand))),
             takes, n + 2)

\* one split near the middle and one zip
ShuffleOnce(left_hand, middle, variance_from_middle, add, takes) ==
    LET guess_at_middle ==
            IF add THEN middle + variance_from_middle
            ELSE IF variance_from_middle > middle THEN middle
            ELSE middle - variance_from_middle
    IN  Zip([left_hand |-> SubSeq(left_hand, 1, guess_at_middle),
             right_hand |-> SubSeq(left_hand, guess_at_middle + 1, Len(left_hand)),
             shuffled |-> <<>>], takes, 0)

RECURSIVE ShuffleTimes(_, _, _, _)
ShuffleTimes(left_hand, middle, tape, i) ==
    IF i > tape.times THEN left_hand
    ELSE ShuffleTimes(ShuffleOnce(left_hand, middle, Draw(tape.variance, i - 1),
                                  Draw(tape.add, i - 1), tape.takes),
                      middle, tape, i + 1)

\* a swap that copies the second card over the first
Swap_Copy(cards, first, second) == [cards EXCEPT ![first + 1] = cards[second + 1]]

Swap(cards, first, second) ==
    [cards EXCEPT ![first + 1] = cards[second + 1], ![second + 1] = cards[first + 1]]

RECURSIVE Swaps(_, _, _)
Swaps(cards, swaps, i) ==
    IF i > Len(swaps) THEN cards
    ELSE Swaps(Swap(cards, swaps[i][1], swaps[i][2]), swaps, i + 1)

\* what shuffle leaves: "Ok" or "panic", and the cards of the deck
Shuffled(err, cards) == [err |-> err, cards |-> cards]

\* Deck::shuffle, the generator's numbers given by the tape:
\* times in 4..7, variance below size / 10, takes in 1..3, 4 to 11 swaps.
\* With size / 10 = 0 the first gen_range(0..max_variance_from_middle) is asked
\* for a number of an empty range and panics; the deck is as it was, the cards
\* being shuffled in a copy until the end.
shuffle(cards, tape) ==
    IF Len(cards) \div 10 = 0 THEN Shuffled("panic", cards)
    ELSE Shuffled("Ok", Swaps(ShuffleTimes(cards, Len(cards) \div 2, tape, 1), tape.swaps, 1))

\* Deck::draw and DiscardPile::take: the card popped and what is left
Top(cards) == cards[Len(cards)]
Rest(cards) == SubSeq(cards, 1, Len(cards) - 1)

\* a put that lets the card fall beside the pile
put_Beside(pile, card) == pile

\* a put that slides the card under the pile
put_Under(pile, card) == <<card>> \o pile

\* DiscardPile::put
put(pile, card) == Append(pile, card)

(***************************************************************************)
(* PlayerSpread                                                            *)
(***************************************************************************)
EmptySpread == [row \in 0 .. Rows - 1 |-> [column \in 0 .. Columns - 1 |-> None]]

Cells == (0 .. Rows - 1) \X (0 .. Columns - 1)

\* a spread operation's outcome: the error (or "Ok"), the spread, the card taken
SpreadResult(err, spread, card) == [err |-> err, spread |-> spread, card |-> card]

\* a take_from that finds no card wherever there is no cell
take_from_NoCardOutside(spread, row, column) ==
    IF row \notin 0 .. Rows - 1 \/ column \notin 0 .. Columns - 1
    THEN SpreadResult("NoCardFound", spread, None)
    ELSE IF spread[row][column] = None THEN SpreadResult("NoCardFound", spread, None)
    ELSE SpreadResult("Ok", [spread EXCEPT ![row][column] = None], spread[row][column])

take_from(spread, row, column) ==
    IF row \notin 0 .. Rows - 1 THEN SpreadResult("RowDoesntExist", spread, None)
    ELSE IF column \notin 0 .. Columns - 1
    THEN SpreadResult("ColumnDoesntExist", spread, None)
    ELSE IF spread[row][column] = None THEN SpreadResult("NoCardFound", spread, None)
    ELSE SpreadResult("Ok", [spread EXCEPT ![row][column] = None], spread[row][column])

\* a place_at that lays the card face-down
place_at_FaceDown(spread, card, row, column) ==
    IF row \notin 0 .. Rows - 1 THEN SpreadResult("RowDoesntExist", spread, None)
    ELSE IF column \notin 0 .. Columns - 1
    THEN SpreadResult("ColumnDoesntExist", spread, None)
    ELSE IF IsSome(spread[row][column]) THEN SpreadResult("SpotTaken", spread, None)
    ELSE SpreadResult("Ok", [spread EXCEPT ![row][column] = Some(Card(card.value))], None)

\* a place_at that looks at the column before the row
place_at_ColumnFirst(spread, card, row, column) ==
    IF column \notin 0 .. Columns - 1 THEN SpreadResult("ColumnDoesntExist", spread, None)
    ELSE IF row \notin 0 .. Rows - 1 THEN SpreadResult("RowDoesntExist", spread, None)
    ELSE IF IsSome(spread[row][column]) THEN SpreadResult("SpotTaken", spread, None)
    ELSE SpreadResult("Ok", [spread EXCEPT ![row][column] = Some(card)], None)

place_at(spread, card, row, column) ==
    IF row \notin 0 .. Rows - 1 THEN SpreadResult("RowDoesntExist", spread, None)
    ELSE IF column \notin 0 .. Columns - 1
    THEN SpreadResult("ColumnDoesntExist", spread, None)
    ELSE IF IsSome(spread[row][column]) THEN SpreadResult("SpotTaken", spread, None)
    ELSE SpreadResult("Ok", [spread EXCEPT ![row][column] = Some(card)], None)

\* a flip_at that is content to flip a face-up card
flip_at_Again(spread, row, column) ==
    IF row \notin 0 .. Rows - 1 THEN SpreadResult("RowDoesntExist", spread, None)
    ELSE IF column \notin 0 .. Columns - 1 THEN SpreadResult("ColumnDoesntExist", spread, None)
    ELSE IF spread[row][column] = None THEN SpreadResult("NoCardFound", spread, None)
    ELSE SpreadResult("Ok", [spread EXCEPT ![row][column] = Some(flip(Unwrap(spread[row][column])))],
                      None)

flip_at(spread, row, column) ==
    IF row \notin 0 .. Rows - 1 THEN SpreadResult("RowDoesntExist", spread, None)
    ELSE IF column \notin 0 .. Columns - 1
    THEN SpreadResult("ColumnDoesntExist", spread, None)
    ELSE IF spread[row][column] = None THEN SpreadResult("NoCardFound", spread, None)
    ELSE IF Unwrap(spread[row][column]).flipped
    THEN SpreadResult("CardAlreadyFlipped", spread, None)
    ELSE SpreadResult("Ok",
                      [spread EXCEPT ![row][column] = Some(flip(Unwrap(spread[row][column])))],
                      None)

\* a remove_column_if_matches that removes nothing
remove_column_if_matches_Never(spread, column) == spread

\* a remove_column_if_matches that does not wait for the cards to be face-up
remove_column_if_matches_FaceDown(spread, column) ==
    IF \E row \in 0 .. Rows - 1 : spread[row][column] = None THEN spread
    ELSE IF \A row \in 0 .. Rows - 1 : Unwrap(spread[row][column]) = Unwrap(spread[0][column])
    THEN [row \in 0 .. Rows - 1 |-> [spread[row] EXCEPT ![column] = None]]
    ELSE spread

\* called with a column of the spread only: the turn has failed before otherwise
remove_column_if_matches(spread, column) ==
    IF \E row \in 0 .. Rows - 1 : spread[row][column] = None THEN spread
    ELSE IF \E row \in 0 .. Rows - 1 : ~Unwrap(spread[row][column]).flipped THEN spread
    ELSE IF \A row \in 0 .. Rows - 1 : Unwrap(spread[row][column]) = Unwrap(spread[0][column])
    THEN [row \in 0 .. Rows - 1 |-> [spread[row] EXCEPT ![column] = None]]
    ELSE spread

remaining_cards(spread) == {cell \in Cells : IsSome(spread[cell[1]][cell[2]])}

flipped_cards(spread) ==
    Cardinality({cell \in remaining_cards(spread) : Unwrap(spread[cell[1]][cell[2]]).flipped})

\* an is_all_flipped that is content with one face-up card
is_all_flipped_Any(spread) ==
    \E cell \in remaining_cards(spread) : Unwrap(spread[cell[1]][cell[2]]).flipped

is_all_flipped(spread) ==
    \A cell \in remaining_cards(spread) : Unwrap(spread[cell[1]][cell[2]]).flipped

RECURSIVE SumCells(_, _)
SumCells(spread, cells) ==
    IF cells = {} THEN 0
    ELSE LET cell == CHOOSE c \in cells : TRUE
         IN  Unwrap(spread[cell[1]][cell[2]]).value + SumCells(spread, cells \ {cell})

\* a score that counts the face-down cards too
score_AllPresent(spread) == SumCells(spread, remaining_cards(spread))

score(spread) ==
    SumCells(spread, {cell \in remaining_cards(spread) : Unwrap(spread[cell[1]][cell[2]]).flipped})

\* a view that shows the value of every card of the spread
view_Present(spread) ==
    [row \in 0 .. Rows - 1 |-> [column \in 0 .. Columns - 1 |->
        IF IsSome(spread[row][column]) THEN Some(Unwrap(spread[row][column]).value)
        ELSE None]]

\* PlayerSpread::view: for each cell the value of its card when it is face-up
view(spread) ==
    [row \in 0 .. Rows - 1 |-> [column \in 0 .. Columns - 1 |->
        IF IsSome(spread[row][column]) /\ Unwrap(spread[row][column]).flipped
        THEN Some(Unwrap(spread[row][column]).value)
        ELSE None]]

flip_all(spread) ==
    [row \in 0 .. Rows - 1 |-> [column \in 0 .. Columns - 1 |->
        IF IsSome(spread[row][column]) THEN Some(flip(Unwrap(spread[row][column]))) ELSE None]]

(***************************************************************************)
(* Player                                                                  *)
(***************************************************************************)
Player(id) == [id |-> id, holding |-> None, spread |-> EmptySpread]

\* generate_player_id: an identifier no earlier player was given
generate_player_id(n) == <<"player", n + 1>>

\* an identifier that was given to no player
UnknownId == <<"nobody", 0>>

\* what hold and release leave: the error (or "Ok"), the player, the card released
PlayerResult(err, player, card) == [err |-> err, player |-> player, card |-> card]

\* a hold that leaves the card as it is
hold_AsIs(player, card) ==
    IF IsSome(player.holding) THEN PlayerResult("AlreadyHoldingCard", player, None)
    ELSE PlayerResult("Ok", [player EXCEPT !.holding = Some(card)], None)

\* a hold that puts the card in the place of the card held
hold_Replace(player, card) ==
    IF IsSome(player.holding)
    THEN PlayerResult("AlreadyHoldingCard", [player EXCEPT !.holding = Some(flip(card))], None)
    ELSE PlayerResult("Ok", [player EXCEPT !.holding = Some(flip(card))], None)

\* Player::hold
hold(player, card) ==
    IF IsSome(player.holding) THEN PlayerResult("AlreadyHoldingCard", player, None)
    ELSE PlayerResult("Ok", [player EXCEPT !.holding = Some(flip(card))], None)

\* a release that hands out the card and leaves it in the hand
release_Keep(player) == PlayerResult("Ok", player, player.holding)

\* Player::release: self.holding.take()
release(player) == PlayerResult("Ok", [player EXCEPT !.holding = None], player.holding)

(***************************************************************************)
(* StratoGame                                                              *)
(***************************************************************************)
\* the game as one value: StratoGame.state, the fields of GameContext and
\* StratoGame.subscriber; delivered collects what the subscriber is sent in the
\* course of one operation
Game == [state |-> state, players |-> players,
         current_player_idx |-> current_player_idx, deck |-> deck,
         discard_pile |-> discard_pile, round |-> round,
         finisher_idx |-> finisher_idx, winner_idx |-> winner_idx,
         subscriber |-> subscriber, delivered |-> <<>>]

\* SubscriberEvent::StateChanged(&self.state)
StateChanged(g) == [kind |-> "StateChanged", payload |-> g.state]

\* SubscriberEvent::ContextChanged(&self.context)
ContextChanged(g) ==
    [kind |-> "ContextChanged",
     payload |-> [players |-> g.players, current_player_idx |-> g.current_player_idx,
                  deck |-> g.deck, discard_pile |-> g.discard_pile, round |-> g.round,
                  finisher_idx |-> g.finisher_idx, winner_idx |-> g.winner_idx]]

\* a notify that emits nothing
notify_Nothing(g, event) == g

\* Subscribe::notify: the subscriber, if there is one, is handed the event at once
notify(g, event) ==
    IF IsSome(g.subscriber)
    THEN [g EXCEPT !.delivered = Append(@, [to |-> Unwrap(g.subscriber), event |-> event])]
    ELSE g

\* self.state = new_state; self.notify(SubscriberEvent::StateChanged(&self.state))
change_state(g, new_state) ==
    LET changed == [g EXCEPT !.state = new_state]
    IN  notify(changed, StateChanged(changed))

\* a subscribe that keeps the subscriber there is
subscribe_KeepFirst(g, f) ==
    IF IsSome(g.subscriber) THEN g ELSE [g EXCEPT !.subscriber = Some(f)]

\* Subscribe::subscribe: f names the closure
subscribe(g, f) == [g EXCEPT !.subscriber = Some(f)]

\* Subscribe::unsubscribe
unsubscribe(g) == [g EXCEPT !.subscriber = None]

\* what an operation leaves behind: the game and the Result it returns
Return(g, res) == [game |-> g, result |-> res]

\* players.iter().position(|p| p.id() == player_id)
position(ps, player_id) ==
    IF \E i \in 1 .. Len(ps) : ps[i].id = player_id
    THEN Some((CHOOSE i \in 1 .. Len(ps) :
                 /\ ps[i].id = player_id
                 /\ \A j \in 1 .. i - 1 : ps[j].id # player_id) - 1)
    ELSE None

\* a choice of the player with the lowest score
max_by_key_score_Lowest(ps) ==
    (CHOOSE i \in 1 .. Len(ps) :
        /\ \A j \in 1 .. Len(ps) : score(ps[j].spread) >= score(ps[i].spread)
        /\ \A j \in i + 1 .. Len(ps) : score(ps[j].spread) > score(ps[i].spread)) - 1

\* .enumerate().max_by_key(|(_, p)| p.spread.score()): of several maximal
\* elements max_by_key returns the last one
max_by_key_score(ps) ==
    (CHOOSE i \in 1 .. Len(ps) :
        /\ \A j \in 1 .. Len(ps) : score(ps[j].spread) <= score(ps[i].spread)
        /\ \A j \in i + 1 .. Len(ps) : score(ps[j].spread) < score(ps[i].spread)) - 1

\* what a deal leaves: the error (or "Ok"), the players and the deck
Dealt(err, ps, cards) == [err |-> err, players |-> ps, deck |-> cards]

RECURSIVE deal_spread(_, _, _)
\* the two inner loops of deal_cards_to_players for one player, from cell n on
\* (cells counted from 0 row by row): [err, spread, deck]
deal_spread(spread, cards, n) ==
    IF n = Rows * Columns THEN [err |-> "Ok", spread |-> spread, deck |-> cards]
    ELSE IF cards = <<>> THEN [err |-> "DeckEmpty", spread |-> spread, deck |-> cards]
    ELSE LET placed == place_at(spread, Top(cards), n \div Columns, n % Columns)
         IN  IF placed.err # "Ok"
             THEN [err |-> placed.err, spread |-> spread, deck |-> Rest(cards)]
             ELSE deal_spread(placed.spread, Rest(cards), n + 1)

RECURSIVE deal(_, _, _)
\* the outer loop, from player i (from 1) on: the first failing draw or placement
\* ends the deal, and what was dealt until then stays dealt
deal(ps, cards, i) ==
    IF i > Len(ps) THEN Dealt("Ok", ps, cards)
    ELSE LET one == deal_spread(ps[i].spread, cards, 0)
             dealt == [ps EXCEPT ![i].spread = one.spread]
         IN  IF one.err # "Ok" THEN Dealt(one.err, dealt, one.deck)
             ELSE deal(dealt, one.deck, i + 1)

\* a deal_cards_to_players that tests for the state before Startup
deal_cards_to_players_BeforeStartup(g) ==
    IF g.state = "WaitingForPlayers" THEN deal(g.players, g.deck, 1)
    ELSE Dealt("Ok", g.players, g.deck)

deal_cards_to_players(g) ==
    IF g.state = "Startup" THEN deal(g.players, g.deck, 1)
    ELSE Dealt("Ok", g.players, g.deck)

\* a test that lets a single player start
not_enough_players_One(g) == Len(g.players) < 1

\* the second test of handle_start
not_enough_players(g) == Len(g.players) < 2

\* an enter_play that always lets the player at index 0 begin
enter_play_FirstInList(g, options) ==
    IF IsSome(options)
    THEN change_state([g EXCEPT !.current_player_idx = Some(0)], "Active")
    ELSE change_state(g, "DetermineFirstPlayer")

\* handle_start once the cards are dealt: options is GameOptions.first_player_idx
enter_play(g, options) ==
    IF IsSome(options)
    THEN change_state([g EXCEPT !.current_player_idx = Some(Unwrap(options))], "Active")
    ELSE change_state(g, "DetermineFirstPlayer")

\* options is GameOptions.first_player_idx; tape holds the numbers shuffle draws
handle_start(g, options, tape) ==
    IF g.state = "Active" THEN Return(g, "GameAlreadyStarted")
    ELSE IF not_enough_players(g) THEN Return(g, "NotEnoughPlayers")
    ELSE IF g.state = "WaitingForPlayers"
    THEN LET shuffled == shuffle(g.deck, tape).cards
             primed == [change_state(g, "Startup") EXCEPT
                           !.deck = Rest(shuffled),
                           !.discard_pile = put(g.discard_pile, Top(shuffled))]
             dealt == deal_cards_to_players(primed)
             after == [primed EXCEPT !.players = dealt.players, !.deck = dealt.deck]
         IN  IF dealt.err # "Ok" THEN Return(after, dealt.err)
             ELSE Return(enter_play(after, options), "Ok")
    ELSE Return(g, "Ok")

\* a send that lacks the guard on the state
send_AddPlayer_Unguarded(g, id) ==
    LET added == [g EXCEPT !.players = Append(g.players, Player(id))]
    IN  Return(notify(added, ContextChanged(added)), "()")

\* StratoGame::send of GameEvent::AddPlayer: it returns nothing
send_AddPlayer(g, id) ==
    IF g.state = "WaitingForPlayers"
    THEN LET added == [g EXCEPT !.players = Append(g.players, Player(id))]
         IN  Return(notify(added, ContextChanged(added)), "()")
    ELSE Return(g, "()")

check_if_first_player_determined(g) ==
    IF \A i \in 1 .. Len(g.players) : flipped_cards(g.players[i].spread) = 2
    THEN Some(max_by_key_score(g.players))
    ELSE None

\* a player_flip_to_determine_who_is_first that stops a player after three flips
player_flip_to_determine_who_is_first_ThreeFlips(g, player_id, row, column) ==
    IF g.state # "DetermineFirstPlayer" THEN Return(g, "NotDeterminingFirstPlayer")
    ELSE LET found == position(g.players, player_id) IN
    IF found = None THEN Return(g, "PlayerDoesntExist")
    ELSE LET i == Unwrap(found) + 1 IN
    IF flipped_cards(g.players[i].spread) > 2 THEN Return(g, "TooManyCardsFlipped")
    ELSE LET flipped == flip_at(g.players[i].spread, row, column) IN
    IF flipped.err # "Ok" THEN Return(g, flipped.err)
    ELSE LET after == [g EXCEPT !.players[i].spread = flipped.spread]
             first_player_idx == check_if_first_player_determined(after)
         IN  IF IsSome(first_player_idx)
             THEN Return(change_state([after EXCEPT !.current_player_idx = first_player_idx],
                                      "Active"), "Ok")
             ELSE Return(after, "Ok")

player_flip_to_determine_who_is_first(g, player_id, row, column) ==
    IF g.state # "DetermineFirstPlayer" THEN Return(g, "NotDeterminingFirstPlayer")
    ELSE LET found == position(g.players, player_id) IN
    IF found = None THEN Return(g, "PlayerDoesntExist")
    ELSE LET i == Unwrap(found) + 1 IN
    IF flipped_cards(g.players[i].spread) >= 2 THEN Return(g, "TooManyCardsFlipped")
    ELSE LET flipped == flip_at(g.players[i].spread, row, column) IN
    IF flipped.err # "Ok" THEN Return(g, flipped.err)
    ELSE LET after == [g EXCEPT !.players[i].spread = flipped.spread]
             first_player_idx == check_if_first_player_determined(after)
         IN  IF IsSome(first_player_idx)
             THEN Return(change_state([after EXCEPT !.current_player_idx = first_player_idx],
                                      "Active"), "Ok")
             ELSE Return(after, "Ok")

\* a check_if_player_turn that lets every player through
check_if_player_turn_Anyone(g, player_idx) == TRUE

\* TRUE when the turn is the player's (Ok), FALSE for Err(NotYourTurn)
check_if_player_turn(g, player_idx) ==
    IF IsSome(g.current_player_idx)
    THEN player_idx = Unwrap(g.current_player_idx)
    ELSE TRUE

\* a start_player_turn that is also let through in the last round
start_player_turn_InLastRound(g, player_id, action) ==
    IF g.state \notin {"Active", "LastRound"} THEN Return(g, "GameNotStarted")
    ELSE LET found == position(g.players, player_id) IN
    IF found = None THEN Return(g, "PlayerDoesntExist")
    ELSE LET i == Unwrap(found) + 1 IN
    IF ~check_if_player_turn(g, Unwrap(found)) THEN Return(g, "NotYourTurn")
    ELSE IF IsSome(g.players[i].holding) THEN Return(g, "TurnAlreadyStarted")
    ELSE IF action = "DrawFromDeck"
    THEN IF g.deck = <<>> THEN Return(g, "DeckEmpty")
         ELSE LET held == hold(g.players[i], Top(g.deck))
              IN  Return([g EXCEPT !.deck = Rest(g.deck), !.players[i] = held.player],
                         held.err)
    ELSE IF g.discard_pile = <<>> THEN Return(g, "DiscardPileEmpty")
         ELSE LET held == hold(g.players[i], Top(g.discard_pile))
              IN  Return([g EXCEPT !.discard_pile = Rest(g.discard_pile),
                                   !.players[i] = held.player], held.err)

start_player_turn(g, player_id, action) ==
    IF g.state # "Active" THEN Return(g, "GameNotStarted")
    ELSE LET found == position(g.players, player_id) IN
    IF found = None THEN Return(g, "PlayerDoesntExist")
    ELSE LET i == Unwrap(found) + 1 IN
    IF ~check_if_player_turn(g, Unwrap(found)) THEN Return(g, "NotYourTurn")
    ELSE IF IsSome(g.players[i].holding) THEN Return(g, "TurnAlreadyStarted")
    ELSE IF action = "DrawFromDeck"
    THEN IF g.deck = <<>> THEN Return(g, "DeckEmpty")
         ELSE LET held == hold(g.players[i], Top(g.deck))
              IN  Return([g EXCEPT !.deck = Rest(g.deck), !.players[i] = held.player],
                         held.err)
    ELSE IF g.discard_pile = <<>> THEN Return(g, "DiscardPileEmpty")
         ELSE LET held == hold(g.players[i], Top(g.discard_pile))
              IN  Return([g EXCEPT !.discard_pile = Rest(g.discard_pile),
                                   !.players[i] = held.player], held.err)

last_player_idx(players_count, finisher) ==
    IF finisher = 0 THEN players_count - 1 ELSE finisher - 1

handle_end(g) ==
    IF g.state # "Ended" THEN g
    ELSE LET flipped == [i \in 1 .. Len(g.players) |->
                            [g.players[i] EXCEPT !.spread = flip_all(g.players[i].spread)]]
         IN  [g EXCEPT !.players = flipped, !.winner_idx = Some(max_by_key_score(flipped))]

advance_round(g) == [g EXCEPT !.round = g.round + 1]

\* an advance_player_turn that does not wrap around the end of the list
advance_player_turn_NoWrap(g) ==
    IF IsSome(g.current_player_idx)
    THEN [g EXCEPT !.current_player_idx = Some(Unwrap(g.current_player_idx) + 1)]
    ELSE g

advance_player_turn(g) ==
    IF IsSome(g.current_player_idx)
    THEN [g EXCEPT !.current_player_idx =
                       Some((Unwrap(g.current_player_idx) + 1) % Len(g.players))]
    ELSE g

\* the end of end_player_turn, once the action has been carried out on the spread
finish_player_turn(g, player_idx) ==
    IF g.state = "LastRound"
       /\ player_idx = last_player_idx(Len(g.players), Unwrap(g.finisher_idx))
    THEN handle_end(change_state(g, "Ended"))
    ELSE LET finished ==
                 IF g.state = "Active" /\ is_all_flipped(g.players[player_idx + 1].spread)
                 THEN change_state([g EXCEPT !.finisher_idx = Some(player_idx)], "LastRound")
                 ELSE g
             counted ==
                 IF player_idx = Len(g.players) THEN advance_round(finished) ELSE finished
         IN  advance_player_turn(counted)

\* action is the kind of EndAction, "Swap" or "Flip", with its row and column
end_player_turn(g, player_id, action, row, column) ==
    IF g.state # "Active" THEN Return(g, "GameNotStarted")
    ELSE LET found == position(g.players, player_id) IN
    IF found = None THEN Return(g, "PlayerDoesntExist")
    ELSE LET i == Unwrap(found) + 1 IN
    IF ~check_if_player_turn(g, Unwrap(found)) THEN Return(g, "NotYourTurn")
    ELSE LET let_go == release(g.players[i]) IN
    IF let_go.card = None THEN Return(g, "TurnNotStarted")
    ELSE LET card_from_hand == Unwrap(let_go.card)
             released == [g EXCEPT !.players[i] = let_go.player]
         IN
    IF action = "Swap"
    THEN LET taken == take_from(released.players[i].spread, row, column) IN
         IF taken.err # "Ok" THEN Return(released, taken.err)
         ELSE LET placed == place_at(taken.spread, card_from_hand, row, column) IN
         IF placed.err # "Ok"
         THEN Return([released EXCEPT !.players[i].spread = taken.spread], placed.err)
         ELSE Return(finish_player_turn(
                         [released EXCEPT
                             !.players[i].spread =
                                 remove_column_if_matches(placed.spread, column),
                             !.discard_pile = put(g.discard_pile, Unwrap(taken.card))],
                         Unwrap(found)), "Ok")
    ELSE LET flipped == flip_at(released.players[i].spread, row, column) IN
         IF flipped.err # "Ok" THEN Return(released, flipped.err)
         ELSE Return(finish_player_turn(
                         [released EXCEPT
                             !.players[i].spread =
                                 remove_column_if_matches(flipped.spread, column),
                             !.discard_pile = put(g.discard_pile, card_from_hand)],
                         Unwrap(found)), "Ok")

(***************************************************************************)
(* The callers.  One public operation runs at a time and runs to its end  *)
(* (the engine is synchronous): an operation is called when no call is in  *)
(* flight, and its caller then takes the result.                           *)
(***************************************************************************)
Call(op, player_id, action, row, column, options) ==
    [op |-> op, player_id |-> player_id, action |-> action, row |-> row,
     column |-> column, options |-> options, arg |-> None]

NoCall == Call("", UnknownId, "", 0, 0, None)

\* the numbers one run of shuffle draws from the generator
Tape(times, variance, add, takes, swaps) ==
    [times |-> times, variance |-> variance, add |-> add, takes |-> takes, swaps |-> swaps]

GameTapes ==
    { Tape(4, <<2, 0, 5, 1>>, <<TRUE, FALSE>>, <<1, 2, 1, 3>>,
           <<<<148, 5>>, <<144, 22>>, <<136, 25>>, <<132, 51>>>>),
      Tape(5, <<3, 14, 0, 7, 11>>, <<TRUE, FALSE>>, <<2, 1, 3>>,
           <<<<0, 149>>, <<5, 77>>, <<20, 21>>, <<100, 3>>, <<148, 136>>>>) }

\* the identifiers callers present: those of the players and one of nobody
PlayerIds == {generate_player_id(n) : n \in 0 .. MaxPlayers - 1} \cup {UnknownId}

\* the first-player options callers give: none, the first two indices and an
\* index beyond every list
StartOptions == {None, Some(0), Some(1), Some(MaxPlayers)}

\* the cells callers name in a game played with free choice: those of the first
\* column, a cell beyond the last column and a cell beyond the last row and column
FreeCells == ((0 .. Rows - 1) \X {0}) \cup {<<0, Columns>>, <<Rows, Columns>>}

\* the cells players name to determine who is first: the first two of the first
\* column, and the two cells beyond the grid
FirstCells == {<<0, 0>>, <<1, 0>>, <<0, Columns>>, <<Rows, Columns>>}

\* the first face-down cell, row by row, of the spread of the player with this
\* identifier; the first cell of the grid when there is none
ScriptCell(player_id) ==
    LET found == position(players, player_id)
        down == IF found = None THEN {}
                ELSE {cell \in remaining_cards(players[Unwrap(found) + 1].spread) :
                        ~Unwrap(players[Unwrap(found) + 1].spread[cell[1]][cell[2]]).flipped}
    IN  IF down = {} THEN <<0, 0>>
        ELSE CHOOSE cell \in down :
                \A other \in down :
                    cell[1] * Columns + cell[2] <= other[1] * Columns + other[2]

Init ==
    /\ state = "WaitingForPlayers"
    /\ players = <<>>
    /\ current_player_idx = None
    /\ deck = DefaultDeck
    /\ discard_pile = <<>>
    /\ round = 0
    /\ finisher_idx = None
    /\ winner_idx = None
    /\ call = NoCall
    /\ result = ""
    /\ turns = 0
    /\ turn_open = None
    /\ player_spread = EmptySpread
    /\ ret = None
    /\ subscriber = None
    /\ delivered = <<>>
    /\ lone_player = Player(UnknownId)

\* the operation c has run and left r
Returns(r, c) ==
    /\ state' = r.game.state
    /\ players' = r.game.players
    /\ current_player_idx' = r.game.current_player_idx
    /\ deck' = r.game.deck
    /\ discard_pile' = r.game.discard_pile
    /\ round' = r.game.round
    /\ finisher_idx' = r.game.finisher_idx
    /\ winner_idx' = r.game.winner_idx
    /\ subscriber' = r.game.subscriber
    /\ delivered' = r.game.delivered
    /\ call' = c
    /\ result' = r.result
    /\ UNCHANGED <<player_spread, ret, lone_player>>

AddPlayer ==
    /\ call = NoCall
    /\ Returns(send_AddPlayer(Game, generate_player_id(Len(players))),
               Call("add_player", generate_player_id(Len(players)), "", 0, 0, None))
    /\ UNCHANGED <<turns, turn_open>>

Start(options, tape) ==
    /\ call = NoCall
    /\ Returns(handle_start(Game, options, tape),
               Call("start", UnknownId, "", 0, 0, options))
    /\ UNCHANGED <<turns, turn_open>>

PlayerFlip(player_id, row, column) ==
    /\ call = NoCall
    /\ Returns(player_flip_to_determine_who_is_first(Game, player_id, row, column),
               Call("player_flip_to_determine_who_is_first", player_id, "", row, column, None))
    /\ UNCHANGED <<turns, turn_open>>

StartPlayerTurn(player_id, action) ==
    /\ call = NoCall
    /\ Returns(start_player_turn(Game, player_id, action),
               Call("start_player_turn", player_id, action, 0, 0, None))
    /\ turns' = IF result' = "Ok" THEN turns + 1 ELSE turns
    /\ turn_open' = IF result' = "Ok" THEN position(players, player_id) ELSE turn_open

EndPlayerTurn(player_id, action, row, column) ==
    /\ call = NoCall
    /\ Returns(end_player_turn(Game, player_id, action, row, column),
               Call("end_player_turn", player_id, action, row, column, None))
    /\ turn_open' = IF result' = "Ok" THEN None ELSE turn_open
    /\ UNCHANGED turns

\* the caller takes the result
Returned ==
    /\ call # NoCall
    /\ call' = NoCall
    /\ result' = ""
    /\ delivered' = <<>>
    /\ UNCHANGED <<game, turns, turn_open, player_spread, ret, subscriber, lone_player>>

\* a game played with free choice of the actions, for a bounded number of turns
Next ==
    \/ (Len(players) < MaxPlayers \/ state # "WaitingForPlayers") /\ AddPlayer
    \/ \E options \in StartOptions, tape \in GameTapes : Start(options, tape)
    \/ \E player_id \in PlayerIds, cell \in FirstCells :
          PlayerFlip(player_id, cell[1], cell[2])
    \/ \E player_id \in PlayerIds, action \in {"DrawFromDeck", "TakeFromDiscardPile"} :
          turns < MaxTurns /\ StartPlayerTurn(player_id, action)
    \/ \E player_id \in PlayerIds, action \in {"Swap", "Flip"}, cell \in FreeCells :
          EndPlayerTurn(player_id, action, cell[1], cell[2])
    \/ Returned

Spec == Init /\ [][Next]_vars

\* games that are set up and started, with up to MaxDealPlayers players
NextDeal ==
    \/ (Len(players) < MaxDealPlayers \/ state # "WaitingForPlayers") /\ AddPlayer
    \/ \E options \in {None, Some(0), Some(1)}, tape \in GameTapes : Start(options, tape)
    \/ Returned

SpecDeal == Init /\ [][NextDeal]_vars

\* a game played to its end by the script: every player draws from the deck and
\* flips the first face-down card of the spread
NextScript ==
    \/ (Len(players) < MaxPlayers \/ state # "WaitingForPlayers") /\ AddPlayer
    \/ \E options \in {None, Some(0)}, tape \in GameTapes : Start(options, tape)
    \/ \E player_id \in PlayerIds :
          PlayerFlip(player_id, ScriptCell(player_id)[1], ScriptCell(player_id)[2])
    \/ \E player_id \in PlayerIds : StartPlayerTurn(player_id, "DrawFromDeck")
    \/ \E player_id \in PlayerIds :
          EndPlayerTurn(player_id, "Flip", ScriptCell(player_id)[1], ScriptCell(player_id)[2])
    \/ Returned

SpecScript == Init /\ [][NextScript]_vars

\* the end of the game as end_player_turn runs it for the last player of the last
\* round: the state becomes Ended and handle_end computes the winner
HandleEnd ==
    /\ call = NoCall
    /\ state = "LastRound"
    /\ Returns(Return(handle_end(change_state(Game, "Ended")), "Ok"),
               Call("handle_end", UnknownId, "", 0, 0, None))
    /\ UNCHANGED <<turns, turn_open>>

\* the scripted game, with the end-of-game computation applied to the games that
\* have come to their last round
NextEnd ==
    \/ (Len(players) < MaxPlayers \/ state # "WaitingForPlayers") /\ AddPlayer
    \/ \E options \in {None, Some(0)}, tape \in GameTapes : Start(options, tape)
    \/ \E player_id \in PlayerIds :
          PlayerFlip(player_id, ScriptCell(player_id)[1], ScriptCell(player_id)[2])
    \/ \E player_id \in PlayerIds : StartPlayerTurn(player_id, "DrawFromDeck")
    \/ \E player_id \in PlayerIds :
          EndPlayerTurn(player_id, "Flip", ScriptCell(player_id)[1], ScriptCell(player_id)[2])
    \/ HandleEnd
    \/ Returned

SpecEnd == Init /\ [][NextEnd]_vars

\* the cells players name in a game that goes no further than determining who is
\* first: those of the first two columns and the two cells beyond the grid
TwoColumnCells == ((0 .. Rows - 1) \X {0, 1}) \cup {<<0, Columns>>, <<Rows, Columns>>}

\* games that are started without a first player and in which the players flip
\* cards to determine who is first
NextFirst ==
    \/ (Len(players) < MaxPlayers \/ state # "WaitingForPlayers") /\ AddPlayer
    \/ \E tape \in GameTapes : Start(None, tape)
    \/ \E player_id \in PlayerIds, cell \in TwoColumnCells :
          PlayerFlip(player_id, cell[1], cell[2])
    \/ Returned

SpecFirst == Init /\ [][NextFirst]_vars

\* the turns of a game in which a player comes back to a column that was removed
MaxSwapTurns == 4

\* games in which the players flip cards to determine who is first, then draw
\* from the deck and swap or flip with free choice of the cell: a player who has
\* removed the first column by the third turn comes back to it in the fifth
NextOneWay ==
    \/ (Len(players) < MaxPlayers \/ state # "WaitingForPlayers") /\ AddPlayer
    \/ \E tape \in GameTapes : Start(None, tape)
    \/ \E player_id \in PlayerIds, cell \in FirstCells :
          PlayerFlip(player_id, cell[1], cell[2])
    \/ \E player_id \in PlayerIds :
          turns < MaxSwapTurns /\ StartPlayerTurn(player_id, "DrawFromDeck")
    \/ \E player_id \in PlayerIds, action \in {"Swap", "Flip"}, cell \in FreeCells :
          EndPlayerTurn(player_id, action, cell[1], cell[2])
    \/ Returned

SpecOneWay == Init /\ [][NextOneWay]_vars

(***************************************************************************)
(* A deck outside any game, shuffled once.                                 *)
(***************************************************************************)
\* the largest deck that is shuffled
MaxShuffleSize == 21

\* the numbers the generator may hand to the shuffle of a deck of this size: every
\* number of passes, the variances below size / 10 (none when that is 0), both
\* ways from the middle, every pair of takes, and four or eleven swaps
ShuffleTapes(size) ==
    LET max_variance_from_middle == size \div 10
        variances == IF max_variance_from_middle = 0 THEN {<<>>}
                     ELSE {<<v>> : v \in 0 .. max_variance_from_middle - 1}
                             \cup {<<0, max_variance_from_middle - 1>>}
        swaps == IF size = 0 THEN {<<>>}
                 ELSE {<<<<0, size - 1>>, <<1 % size, 1 % size>>, <<2 % size, 0>>,
                         <<size - 1, (size - 1) \div 2>>>>,
                       [i \in 1 .. 11 |-> <<(3 * i) % size, (7 * i + 1) % size>>]}
    IN  {Tape(times, variance, add, <<left, right>>, swap) :
            times \in 4 .. 7, variance \in variances,
            add \in {<<TRUE>>, <<FALSE>>, <<TRUE, FALSE>>},
            left \in 1 .. 3, right \in 1 .. 3, swap \in swaps}

InitShuffle ==
    /\ state = "WaitingForPlayers"
    /\ players = <<>>
    /\ current_player_idx = None
    /\ deck \in {SubSeq(DefaultDeck, 1, size) : size \in 0 .. MaxShuffleSize}
    /\ discard_pile = <<>>
    /\ round = 0
    /\ finisher_idx = None
    /\ winner_idx = None
    /\ call = NoCall
    /\ result = ""
    /\ turns = 0
    /\ turn_open = None
    /\ player_spread = EmptySpread
    /\ ret = None
    /\ subscriber = None
    /\ delivered = <<>>
    /\ lone_player = Player(UnknownId)

Shuffle(tape) ==
    /\ call = NoCall
    /\ deck' = shuffle(deck, tape).cards
    /\ result' = shuffle(deck, tape).err
    /\ call' = [NoCall EXCEPT !.op = "shuffle", !.arg = Some(tape)]
    /\ UNCHANGED <<state, players, current_player_idx, discard_pile, round, finisher_idx,
                   winner_idx, turns, turn_open, player_spread, ret, subscriber, delivered,
                   lone_player>>

NextShuffle == \E tape \in ShuffleTapes(Len(deck)) : Shuffle(tape)

SpecShuffle == InitShuffle /\ [][NextShuffle]_vars

(***************************************************************************)
(* A player outside any game, who is handed cards and asked for them.      *)
(***************************************************************************)
\* the cards the player is handed: of every value, face-down and face-up
HandCards == {[value |-> v, flipped |-> f] : v \in CardValues, f \in BOOLEAN}

\* the operation c has run on the player and left r
Handled(r, c) ==
    /\ call = NoCall
    /\ lone_player' = r.player
    /\ result' = r.err
    /\ ret' = r.card
    /\ call' = c
    /\ UNCHANGED <<game, turns, turn_open, player_spread, subscriber, delivered>>

Hold(card) ==
    Handled(hold(lone_player, card), [NoCall EXCEPT !.op = "hold", !.arg = Some(card)])

Release == Handled(release(lone_player), [NoCall EXCEPT !.op = "release"])

NextPlayer ==
    \/ \E card \in HandCards : Hold(card)
    \/ Release
    \/ Returned

SpecPlayer == Init /\ [][NextPlayer]_vars

\* the closures that subscribe to a game
Observers == {"f", "g"}

Subscribe(f) ==
    /\ call = NoCall
    /\ Returns(Return(subscribe(Game, f), "()"),
               [NoCall EXCEPT !.op = "subscribe", !.arg = Some(f)])
    /\ UNCHANGED <<turns, turn_open>>

Unsubscribe ==
    /\ call = NoCall
    /\ Returns(Return(unsubscribe(Game), "()"), [NoCall EXCEPT !.op = "unsubscribe"])
    /\ UNCHANGED <<turns, turn_open>>

\* the scripted game and its end, observed: f subscribes at any time, g
\* subscribes in the place of f, and the subscriber is dropped at any time
NextObserve ==
    \/ (Len(players) < MaxPlayers \/ state # "WaitingForPlayers") /\ AddPlayer
    \/ \E options \in {None, Some(0)}, tape \in GameTapes : Start(options, tape)
    \/ \E player_id \in PlayerIds :
          PlayerFlip(player_id, ScriptCell(player_id)[1], ScriptCell(player_id)[2])
    \/ \E player_id \in PlayerIds : StartPlayerTurn(player_id, "DrawFromDeck")
    \/ \E player_id \in PlayerIds :
          EndPlayerTurn(player_id, "Flip", ScriptCell(player_id)[1], ScriptCell(player_id)[2])
    \/ HandleEnd
    \/ \E f \in Observers : (f = "g" => subscriber = Some("f")) /\ Subscribe(f)
    \/ Unsubscribe
    \/ Returned

SpecObserve == Init /\ [][NextObserve]_vars

\* the turns of a game in which players flip cards turn after turn
MaxFlipTurns == 7

\* the cells players name in that game: those of the first column, a cell beyond
\* the last row, one beyond the last column and one beyond both
ReflipCells == FreeCells \cup {<<Rows, 0>>}

\* games started with the first player named, in which every turn is a draw from
\* the deck followed by a flip: no card is face-up but by a flip of its owner in
\* one of the turns
NextReflip ==
    \/ (Len(players) < MaxPlayers \/ state # "WaitingForPlayers") /\ AddPlayer
    \/ \E tape \in GameTapes : Start(Some(0), tape)
    \/ \E player_id \in PlayerIds :
          turns < MaxFlipTurns /\ StartPlayerTurn(player_id, "DrawFromDeck")
    \/ \E player_id \in PlayerIds, cell \in ReflipCells :
          EndPlayerTurn(player_id, "Flip", cell[1], cell[2])
    \/ Returned

SpecReflip == Init /\ [][NextReflip]_vars

(***************************************************************************)
(* A spread operated on outside any game: the spread is drawn from a set   *)
(* of spreads and one operation of PlayerSpread is applied to it.          *)
(***************************************************************************)
\* the values of the cards that vary in those spreads
TestValues == {-2, 5}

TestCards == {[value |-> v, flipped |-> f] : v \in TestValues, f \in BOOLEAN}

\* what a cell of the first column holds
TestSlots == {None} \cup {Some(card) : card \in TestCards}

\* what every cell of the second column holds: a face-up card of one value or a
\* face-down card of one value
SecondColumns == {Some([value |-> 5, flipped |-> TRUE]), Some(Card(12))}

\* the spreads: the first column varies cell by cell, the second is full of one
\* card, the third holds the face-down cards 0, 1, 2 and the fourth is absent
TestSpreads ==
    {[row \in 0 .. Rows - 1 |-> [column \in 0 .. Columns - 1 |->
        IF column = 0 THEN first[row]
        ELSE IF column = 1 THEN second
        ELSE IF column = 2 THEN Some(Card(row))
        ELSE None]] :
      first \in [0 .. Rows - 1 -> TestSlots], second \in SecondColumns}

InitSpread ==
    /\ state = "WaitingForPlayers"
    /\ players = <<>>
    /\ current_player_idx = None
    /\ deck = DefaultDeck
    /\ discard_pile = <<>>
    /\ round = 0
    /\ finisher_idx = None
    /\ winner_idx = None
    /\ call = NoCall
    /\ result = ""
    /\ turns = 0
    /\ turn_open = None
    /\ player_spread \in TestSpreads
    /\ ret = None
    /\ subscriber = None
    /\ delivered = <<>>
    /\ lone_player = Player(UnknownId)

\* the operation c has run on the spread and left r, returning out besides
Operated(r, c, out) ==
    /\ call = NoCall
    /\ player_spread' = r.spread
    /\ result' = r.err
    /\ call' = c
    /\ ret' = out
    /\ UNCHANGED <<game, turns, turn_open, subscriber, delivered, lone_player>>

PlaceAt(card, row, column) ==
    Operated(place_at(player_spread, card, row, column),
             [NoCall EXCEPT !.op = "place_at", !.row = row, !.column = column,
                            !.arg = Some(card)], None)

TakeFrom(row, column) ==
    Operated(take_from(player_spread, row, column),
             [NoCall EXCEPT !.op = "take_from", !.row = row, !.column = column],
             take_from(player_spread, row, column).card)

RemoveColumnIfMatches(column) ==
    Operated(SpreadResult("Ok", remove_column_if_matches(player_spread, column), None),
             [NoCall EXCEPT !.op = "remove_column_if_matches", !.column = column], None)

Score ==
    Operated(SpreadResult("Ok", player_spread, None), [NoCall EXCEPT !.op = "score"],
             Some(score(player_spread)))

View ==
    Operated(SpreadResult("Ok", player_spread, None), [NoCall EXCEPT !.op = "view"],
             Some(view(player_spread)))

\* one operation on the spread, the rows and columns named going one beyond the grid
NextSpread ==
    \/ \E card \in TestCards, row \in 0 .. Rows, column \in 0 .. Columns :
          PlaceAt(card, row, column)
    \/ \E row \in 0 .. Rows, column \in 0 .. Columns : TakeFrom(row, column)
    \/ \E column \in 0 .. Columns - 1 : RemoveColumnIfMatches(column)
    \/ Score
    \/ View

SpecSpread == InitSpread /\ [][NextSpread]_vars

(***************************************************************************)
(* The claims.                                                             *)
(***************************************************************************)
\* the index of the player who makes the call that has just run, if registered
Caller == position(players, call'.player_id)

TurnCalls == {"start_player_turn", "end_player_turn"}

SpreadErrors == {"RowDoesntExist", "ColumnDoesntExist", "NoCardFound", "CardAlreadyFlipped"}

\* C1: in state Active a start_player_turn or an end_player_turn, with any action,
\* by a registered player whose index is not current_player_idx returns
\* NotYourTurn and leaves the whole game as it was.
C1_NotYourTurn ==
    [][(/\ call'.op \in TurnCalls
        /\ state = "Active"
        /\ IsSome(Caller)
        /\ Caller # current_player_idx)
       => (result' = "NotYourTurn" /\ UNCHANGED game)]_vars

C1_Witness ==
    /\ call.op = "end_player_turn"
    /\ call.action = "Swap"
    /\ result = "NotYourTurn"
    /\ state = "Active"
    /\ IsSome(position(players, call.player_id))
    /\ turns > 0

\* C2 (as claimed): for the current player in state Active, a start_player_turn
\* after a start of the same player that no successful end_player_turn has
\* followed returns TurnAlreadyStarted and leaves the deck, the discard pile and
\* the held cards as they were; an end_player_turn while the player holds no card
\* returns TurnNotStarted and changes nothing.
C2_Alternate ==
    [][/\ (/\ call'.op = "start_player_turn"
            /\ state = "Active"
            /\ IsSome(Caller)
            /\ Caller = current_player_idx
            /\ turn_open = Caller)
           => (result' = "TurnAlreadyStarted" /\ UNCHANGED <<deck, discard_pile, players>>)
       /\ (/\ call'.op = "end_player_turn"
            /\ state = "Active"
            /\ IsSome(Caller)
            /\ Caller = current_player_idx
            /\ players[Unwrap(Caller) + 1].holding = None)
           => (result' = "TurnNotStarted" /\ UNCHANGED game)]_vars

\* C3: a successful end_player_turn by the player at index i that does not end
\* the game leaves current_player_idx at (i + 1) mod n, n the number of players;
\* and only the current player starts a turn successfully.
C3_NextPlayer ==
    [][/\ (call'.op = "end_player_turn" /\ result' = "Ok" /\ state' # "Ended")
           => /\ IsSome(Caller)
              /\ current_player_idx' = Some((Unwrap(Caller) + 1) % Len(players))
       /\ (call'.op = "start_player_turn" /\ result' = "Ok")
           => (IsSome(Caller) /\ Caller = current_player_idx)]_vars

C3_Witness ==
    /\ call.op = "end_player_turn"
    /\ result = "Ok"
    /\ call.player_id = players[Len(players)].id
    /\ current_player_idx = Some(0)

\* C4 (as claimed): an end_player_turn of the current player, who holds a card,
\* that fails with an error of the spread leaves the game as it was.
C4_FailedEndKeepsState ==
    [][(/\ call'.op = "end_player_turn"
        /\ result' \in SpreadErrors)
       => UNCHANGED game]_vars

\* every cell of the spread holds a face-down card
AllFaceDown(spread) ==
    \A cell \in Cells :
        /\ IsSome(spread[cell[1]][cell[2]])
        /\ ~Unwrap(spread[cell[1]][cell[2]]).flipped

\* C5: after a successful start with a first-player index on a game in
\* WaitingForPlayers with n registered players, 2 <= n <= 12, every spread has
\* its 12 cells present and face-down, the discard pile holds 1 card and the
\* deck holds 150 - 12 * n - 1 cards.
C5_Dealt ==
    [][(/\ call'.op = "start"
        /\ result' = "Ok"
        /\ state = "WaitingForPlayers"
        /\ IsSome(call'.options)
        /\ Len(players) \in 2 .. 12)
       => (/\ Len(players') = Len(players)
           /\ \A i \in 1 .. Len(players') : AllFaceDown(players'[i].spread)
           /\ Len(discard_pile') = 1
           /\ Len(deck') = 150 - 12 * Len(players) - 1)]_vars

C5_Witness ==
    /\ call.op = "start"
    /\ result = "Ok"
    /\ IsSome(call.options)
    /\ Len(players) = 12
    /\ Len(deck) = 5
    /\ AllFaceDown(players[12].spread)

\* C6: a successful start from WaitingForPlayers with at least 2 players ends
\* in Active with current_player_idx the index given, when one is given, and
\* otherwise in DetermineFirstPlayer with current_player_idx undefined.
C6_StartState ==
    [][(/\ call'.op = "start"
        /\ result' = "Ok"
        /\ state = "WaitingForPlayers"
        /\ Len(players) >= 2)
       => IF IsSome(call'.options)
          THEN state' = "Active" /\ current_player_idx' = call'.options
          ELSE state' = "DetermineFirstPlayer" /\ current_player_idx' = None]_vars

C6_Witness ==
    /\ call.op = "start"
    /\ result = "Ok"
    /\ call.options = Some(1)
    /\ state = "Active"
    /\ current_player_idx = Some(1)

\* C7: start, with or without options, on a game in WaitingForPlayers with fewer
\* than 2 registered players fails with NotEnoughPlayers and leaves the state,
\* the deck, the discard pile and the players as they were.
C7_NotEnoughPlayers ==
    [][(/\ call'.op = "start"
        /\ state = "WaitingForPlayers"
        /\ Len(players) < 2)
       => (result' = "NotEnoughPlayers" /\ UNCHANGED game)]_vars

C7_Witness ==
    /\ call.op = "start"
    /\ IsSome(call.options)
    /\ result = "NotEnoughPlayers"
    /\ Len(players) = 1
    /\ state = "WaitingForPlayers"

\* C8 (as claimed): start on a game whose state is Active, LastRound or Ended
\* fails with GameAlreadyStarted and leaves the game as it was.
C8_AlreadyStarted ==
    [][(/\ call'.op = "start"
        /\ state \in {"Active", "LastRound", "Ended"})
       => (result' = "GameAlreadyStarted" /\ UNCHANGED game)]_vars

\* C9 (as claimed): adding a player in a state other than WaitingForPlayers
\* fails with PlayersListLocked; adding a player in WaitingForPlayers appends
\* exactly one player at the end of the list and leaves the state as it was.
C9_AddPlayer ==
    [][call'.op = "add_player"
       => IF state = "WaitingForPlayers"
          THEN /\ Len(players') = Len(players) + 1
               /\ SubSeq(players', 1, Len(players)) = players
               /\ players'[Len(players')].id = call'.player_id
               /\ state' = "WaitingForPlayers"
          ELSE result' = "PlayersListLocked"]_vars

\* C10: once the state has left WaitingForPlayers no operation changes the
\* number, the identity or the order of the players in the list.
C10_PlayersFrozen ==
    [][state # "WaitingForPlayers"
       => (/\ Len(players') = Len(players)
           /\ \A i \in 1 .. Len(players) : players'[i].id = players[i].id)]_vars

C10_Witness ==
    /\ call.op = "add_player"
    /\ state \in {"DetermineFirstPlayer", "Active"}
    /\ turns > 0
    /\ Len(players) = 2

\* C11 (as claimed): once a finisher has put the game in LastRound, the player
\* whose turn it is, who is not the finisher, can start one more turn, and when
\* the player just before the finisher (wrapping) ends that turn the state
\* becomes Ended, winner_idx is set and current_player_idx is not advanced.
C11_LastRoundTurns ==
    [][/\ (/\ call'.op = "start_player_turn"
           /\ state = "LastRound"
           /\ IsSome(Caller)
           /\ Caller = current_player_idx
           /\ Caller # finisher_idx
           /\ players[Unwrap(Caller) + 1].holding = None
           /\ deck # <<>>)
          => result' = "Ok"
       /\ (/\ call'.op = "end_player_turn"
           /\ state = "LastRound"
           /\ result' = "Ok"
           /\ IsSome(Caller)
           /\ Unwrap(Caller) = (Unwrap(finisher_idx) + Len(players) - 1) % Len(players))
          => (/\ state' = "Ended"
              /\ IsSome(winner_idx')
              /\ current_player_idx' = current_player_idx)]_vars

\* C12 (as claimed): end_player_turn returns GameNotStarted exactly when the
\* state is neither Active nor LastRound.
C12_EndAccepted ==
    [][call'.op = "end_player_turn"
       => (result' = "GameNotStarted" <=> state \notin {"Active", "LastRound"})]_vars

NoneFaceDown(spread) ==
    \A cell \in Cells :
        spread[cell[1]][cell[2]] = None \/ Unwrap(spread[cell[1]][cell[2]]).flipped

\* C14: in Active, a successful end_player_turn after which every present card
\* of the actor's spread is face-up (columns cleared) records the actor as
\* finisher_idx and moves the state to LastRound; if a present card of the actor
\* is still face-down the state stays Active and finisher_idx stays undefined;
\* once set, finisher_idx never changes.
C14_Finisher ==
    [][/\ (call'.op = "end_player_turn" /\ result' = "Ok" /\ state = "Active")
          => /\ IsSome(Caller)
             /\ IF NoneFaceDown(players'[Unwrap(Caller) + 1].spread)
                THEN finisher_idx' = Caller /\ state' = "LastRound"
                ELSE finisher_idx' = None /\ state' = "Active"
       /\ IsSome(finisher_idx) => finisher_idx' = finisher_idx]_vars

C14_Witness ==
    /\ call.op = "end_player_turn"
    /\ result = "Ok"
    /\ state = "LastRound"
    /\ finisher_idx = position(players, call.player_id)
    /\ \E cell \in Cells : players[Unwrap(finisher_idx) + 1].spread[cell[1]][cell[2]] = None

\* C15 (as claimed): the end-of-game computation flips every remaining face-down
\* card of every spread face-up and sets winner_idx to the index of a player
\* whose total score is the lowest of all.
C15_LowestWins ==
    [][call'.op = "handle_end"
       => (/\ \A i \in 1 .. Len(players') : NoneFaceDown(players'[i].spread)
           /\ IsSome(winner_idx')
           /\ \A i \in 1 .. Len(players') :
                 score(players'[Unwrap(winner_idx') + 1].spread)
                     <= score(players'[i].spread))]_vars

\* the cells of the spread that hold a face-up card
FaceUp(spread) ==
    {cell \in Cells :
        IsSome(spread[cell[1]][cell[2]]) /\ Unwrap(spread[cell[1]][cell[2]]).flipped}

\* the sum of the face-up cards of the spread
FaceUpSum(spread) == SumCells(spread, FaceUp(spread))

\* C16: in DetermineFirstPlayer the state stays DetermineFirstPlayer while some
\* player has fewer than 2 face-up cards; the flip after which every player has
\* exactly 2 face-up cards moves the state to Active and sets current_player_idx
\* to the index of a player whose two face-up cards have the highest sum.
C16_FirstPlayer ==
    [][(call'.op = "player_flip_to_determine_who_is_first"
        /\ state = "DetermineFirstPlayer")
       => IF \A i \in 1 .. Len(players') : Cardinality(FaceUp(players'[i].spread)) = 2
          THEN /\ state' = "Active"
               /\ IsSome(current_player_idx')
               /\ Unwrap(current_player_idx') \in 0 .. Len(players') - 1
               /\ \A i \in 1 .. Len(players') :
                     FaceUpSum(players'[i].spread)
                         <= FaceUpSum(players'[Unwrap(current_player_idx') + 1].spread)
          ELSE /\ state' = "DetermineFirstPlayer"
               /\ current_player_idx' = None]_vars

C16_Witness ==
    /\ call.op = "player_flip_to_determine_who_is_first"
    /\ result = "Ok"
    /\ state = "Active"
    /\ current_player_idx = Some(0)
    /\ \A i \in 2 .. Len(players) :
          FaceUpSum(players[i].spread) < FaceUpSum(players[1].spread)

\* the player at index idx (from 0) is the first in the list with that sum of
\* face-up cards
FirstOfEquals(ps, idx) ==
    \A i \in 1 .. Len(ps) :
        FaceUpSum(ps[i].spread) = FaceUpSum(ps[idx + 1].spread) => idx + 1 <= i

\* C17 (as claimed): when several players tie in first-player determination, the
\* one with the smallest index becomes current_player_idx; the same rule picks
\* winner_idx when the scores tie at the end of the game.
C17_FirstOfTie ==
    [][/\ (/\ call'.op = "player_flip_to_determine_who_is_first"
           /\ state = "DetermineFirstPlayer"
           /\ state' = "Active")
          => (IsSome(current_player_idx')
              /\ FirstOfEquals(players', Unwrap(current_player_idx')))
       /\ (state # "Ended" /\ state' = "Ended")
          => (IsSome(winner_idx') /\ FirstOfEquals(players', Unwrap(winner_idx')))]_vars

\* C18: during DetermineFirstPlayer no player ever has more than 2 face-up
\* cards: a flip attempt by a player who already has 2 face-up cards fails with
\* TooManyCardsFlipped and changes nothing, whatever cell is named.
C18_TwoFlips ==
    [][/\ state' = "DetermineFirstPlayer"
          => \A i \in 1 .. Len(players') : Cardinality(FaceUp(players'[i].spread)) <= 2
       /\ (/\ call'.op = "player_flip_to_determine_who_is_first"
           /\ state = "DetermineFirstPlayer"
           /\ IsSome(Caller)
           /\ Cardinality(FaceUp(players[Unwrap(Caller) + 1].spread)) >= 2)
          => (result' = "TooManyCardsFlipped" /\ UNCHANGED game)]_vars

C18_Witness ==
    /\ call.op = "player_flip_to_determine_who_is_first"
    /\ result = "TooManyCardsFlipped"
    /\ call.column = Columns
    /\ state = "DetermineFirstPlayer"
    /\ \E i \in 1 .. Len(players) :
          players[i].id = call.player_id /\ Cardinality(FaceUp(players[i].spread)) = 2

\* the end_player_turn that has just run succeeded with this kind of action
EndedWith(action) ==
    /\ call'.op = "end_player_turn"
    /\ call'.action = action
    /\ result' = "Ok"
    /\ IsSome(Caller)

\* the spread of the player who makes the call that has just run, before and after
Before == players[Unwrap(Caller) + 1].spread
After == players'[Unwrap(Caller) + 1].spread

\* the call has removed column c, which card completed to three face-up cards of
\* one value: the other two cards of the column lay face-up with that value
ColumnRemoved(card, r, c) ==
    /\ \A row \in 0 .. Rows - 1 : After[row][c] = None
    /\ \A row \in (0 .. Rows - 1) \ {r} :
          /\ IsSome(Before[row][c])
          /\ Unwrap(Before[row][c]) = [value |-> card.value, flipped |-> TRUE]

\* C19 (as claimed): a successful end_player_turn with Flip{row, col} turns the
\* face-down card at (row, col) of the actor's spread face-up without changing
\* its value, pushes the previously held card on top of the discard pile and
\* leaves the actor holding nothing.
C19_Flip ==
    [][EndedWith("Flip")
       => (/\ IsSome(Before[call'.row][call'.column])
           /\ ~Unwrap(Before[call'.row][call'.column]).flipped
           /\ After[call'.row][call'.column] =
                  Some([value |-> Unwrap(Before[call'.row][call'.column]).value,
                        flipped |-> TRUE])
           /\ IsSome(players[Unwrap(Caller) + 1].holding)
           /\ discard_pile' = Append(discard_pile, Unwrap(players[Unwrap(Caller) + 1].holding))
           /\ players'[Unwrap(Caller) + 1].holding = None)]_vars

\* C19 (amended): as C19, except that the card turned face-up is removed from the
\* spread with its whole column when it completes a column of three face-up
\* cards of one value.
C19_FlipOrColumnRemoved ==
    [][EndedWith("Flip")
       => (/\ IsSome(Before[call'.row][call'.column])
           /\ ~Unwrap(Before[call'.row][call'.column]).flipped
           /\ \/ After[call'.row][call'.column] =
                     Some([value |-> Unwrap(Before[call'.row][call'.column]).value,
                           flipped |-> TRUE])
              \/ ColumnRemoved(Unwrap(Before[call'.row][call'.column]),
                               call'.row, call'.column)
           /\ IsSome(players[Unwrap(Caller) + 1].holding)
           /\ discard_pile' = Append(discard_pile, Unwrap(players[Unwrap(Caller) + 1].holding))
           /\ players'[Unwrap(Caller) + 1].holding = None)]_vars

C19_Witness ==
    /\ call.op = "end_player_turn"
    /\ call.action = "Flip"
    /\ result = "Ok"
    /\ Len(discard_pile) = 2
    /\ \E i \in 1 .. Len(players) :
          /\ players[i].id = call.player_id
          /\ players[i].holding = None
          /\ IsSome(players[i].spread[call.row][call.column])
          /\ Unwrap(players[i].spread[call.row][call.column]).flipped

\* C20 (as claimed): a successful end_player_turn with Swap{row, col} puts the
\* previously held card face-up at (row, col), pushes the card that was at
\* (row, col) on top of the discard pile and leaves the actor holding nothing; a
\* turn that takes from the discard pile and then swaps leaves the discard pile
\* as large as it was: the take makes it one card smaller, the swap one larger.
C20_Swap ==
    [][/\ EndedWith("Swap")
          => (/\ IsSome(players[Unwrap(Caller) + 1].holding)
              /\ After[call'.row][call'.column] =
                     Some([value |-> Unwrap(players[Unwrap(Caller) + 1].holding).value,
                           flipped |-> TRUE])
              /\ IsSome(Before[call'.row][call'.column])
              /\ discard_pile' = Append(discard_pile, Unwrap(Before[call'.row][call'.column]))
              /\ players'[Unwrap(Caller) + 1].holding = None)
       /\ (/\ call'.op = "start_player_turn"
           /\ call'.action = "TakeFromDiscardPile"
           /\ result' = "Ok")
          => Len(discard_pile') = Len(discard_pile) - 1]_vars

\* C20 (amended): as C20, except that the card put on the spread is removed from
\* it with its whole column when it completes a column of three face-up cards of
\* one value.
C20_SwapOrColumnRemoved ==
    [][/\ EndedWith("Swap")
          => (/\ IsSome(players[Unwrap(Caller) + 1].holding)
              /\ \/ After[call'.row][call'.column] =
                        Some([value |-> Unwrap(players[Unwrap(Caller) + 1].holding).value,
                              flipped |-> TRUE])
                 \/ ColumnRemoved(Unwrap(players[Unwrap(Caller) + 1].holding),
                                  call'.row, call'.column)
              /\ IsSome(Before[call'.row][call'.column])
              /\ discard_pile' = Append(discard_pile, Unwrap(Before[call'.row][call'.column]))
              /\ players'[Unwrap(Caller) + 1].holding = None)
       /\ (/\ call'.op = "start_player_turn"
           /\ call'.action = "TakeFromDiscardPile"
           /\ result' = "Ok")
          => Len(discard_pile') = Len(discard_pile) - 1]_vars

C20_Witness ==
    /\ call.op = "end_player_turn"
    /\ call.action = "Swap"
    /\ result = "Ok"
    /\ Len(discard_pile) = 1
    /\ Len(deck) = FULL_SIZE - 1 - Rows * Columns * Len(players)
    /\ \E i \in 1 .. Len(players) :
          /\ players[i].id = call.player_id
          /\ players[i].holding = None
          /\ IsSome(players[i].spread[call.row][call.column])
          /\ Unwrap(players[i].spread[call.row][call.column]).flipped

\* the game has been started successfully
Started == state \in {"DetermineFirstPlayer", "Active", "LastRound", "Ended"}

\* C22 (as claimed): in every reachable state after a successful start the
\* discard pile holds at least one card.
C22_PileNeverEmpty == Started => Len(discard_pile) >= 1

\* C22 (amended): after a successful start the discard pile holds at least one
\* card whenever no turn is open, that is whenever every turn that was started
\* has been ended successfully; the player who takes the only card of the pile
\* leaves it empty until the turn is ended.
C22_PileBetweenTurns == (Started /\ turn_open = None) => Len(discard_pile) >= 1

C22_Witness ==
    /\ state = "Active"
    /\ turn_open = None
    /\ turns = 2
    /\ call.op = "end_player_turn"
    /\ result = "Ok"
    /\ Len(discard_pile) = 1

\* C23 (as claimed): in every reachable state every card in the discard pile is
\* face-up, the card moved from the deck at start and a card removed from a
\* spread by a Swap included.
C23_PileFaceUp == \A i \in 1 .. Len(discard_pile) : discard_pile[i].flipped

\* the rows and the columns a spread has
InRows(row) == row \in 0 .. Rows - 1

InColumns(column) == column \in 0 .. Columns - 1

\* every cell but the named one is as it was
OnlyCellChanged(row, column) ==
    \A cell \in Cells :
        cell # <<row, column>> => player_spread'[cell[1]][cell[2]] = player_spread[cell[1]][cell[2]]

\* C26: place_at checks the row, then the column, then that the cell is free; an
\* error leaves the spread as it was, a success changes the named cell only,
\* which then holds the given card
C26_PlaceAt ==
    [][call'.op = "place_at" =>
        LET row == call'.row
            column == call'.column
        IN  /\ result' = IF ~InRows(row) THEN "RowDoesntExist"
                         ELSE IF ~InColumns(column) THEN "ColumnDoesntExist"
                         ELSE IF player_spread[row][column] # None THEN "SpotTaken"
                         ELSE "Ok"
            /\ result' # "Ok" => player_spread' = player_spread
            /\ result' = "Ok" =>
                  /\ player_spread'[row][column] = call'.arg
                  /\ OnlyCellChanged(row, column)]_vars

\* a card was placed beyond the last row and beyond the last column
C26_Witness ==
    /\ call.op = "place_at" /\ call.row = Rows /\ call.column = Columns
    /\ result = "RowDoesntExist"

\* C27: take_from reports a row out of range, else a column out of range, and
\* NoCardFound only for an absent cell of the grid, the spread unchanged in the
\* three cases; a success returns the cell's card and leaves that cell alone absent
C27_TakeFrom ==
    [][call'.op = "take_from" =>
        LET row == call'.row
            column == call'.column
        IN  /\ result' = IF ~InRows(row) THEN "RowDoesntExist"
                         ELSE IF ~InColumns(column) THEN "ColumnDoesntExist"
                         ELSE IF player_spread[row][column] = None THEN "NoCardFound"
                         ELSE "Ok"
            /\ result' # "Ok" => player_spread' = player_spread /\ ret' = None
            /\ result' = "Ok" =>
                  /\ ret' = player_spread[row][column]
                  /\ player_spread'[row][column] = None
                  /\ OnlyCellChanged(row, column)]_vars

\* a card was asked of a row of the grid and of a column beyond the last
C27_Witness ==
    /\ call.op = "take_from" /\ InRows(call.row) /\ call.column = Columns
    /\ result = "ColumnDoesntExist"

\* the column holds three face-up cards of one value
ColumnMatches(column) ==
    \A row \in 0 .. Rows - 1 :
        /\ player_spread[row][column] # None
        /\ player_spread[row][column][1].flipped
        /\ player_spread[0][column] # None
        /\ player_spread[row][column][1].value = player_spread[0][column][1].value

\* C28: for a column of the grid, remove_column_if_matches empties the column
\* exactly when its three cells hold face-up cards of one value, and leaves the
\* spread as it was otherwise; the other columns never change
C28_RemoveColumn ==
    [][call'.op = "remove_column_if_matches" =>
        LET column == call'.column
        IN  /\ \A cell \in Cells : cell[2] # column =>
                  player_spread'[cell[1]][cell[2]] = player_spread[cell[1]][cell[2]]
            /\ ColumnMatches(column) =>
                  \A row \in 0 .. Rows - 1 : player_spread'[row][column] = None
            /\ ~ColumnMatches(column) => player_spread' = player_spread]_vars

\* the second column, which no spread starts without, was removed
C28_Witness ==
    /\ call.op = "remove_column_if_matches" /\ call.column = 1
    /\ \A row \in 0 .. Rows - 1 : player_spread[row][1] = None

\* what a cell counts for: the value of its card when it is face-up
Worth(row, column) ==
    IF player_spread[row][column] # None /\ player_spread[row][column][1].flipped
    THEN player_spread[row][column][1].value
    ELSE 0

RowWorth(row) == Worth(row, 0) + Worth(row, 1) + Worth(row, 2) + Worth(row, 3)

ShownCells ==
    {cell \in Cells : /\ player_spread[cell[1]][cell[2]] # None
                      /\ player_spread[cell[1]][cell[2]][1].flipped}

\* C29: score is the sum of the values of the face-up cards of the spread; with
\* no face-up card it is 0, with a single face-up -2 it is -2
C29_Score ==
    call.op = "score" =>
        /\ ret = Some(RowWorth(0) + RowWorth(1) + RowWorth(2))
        /\ ShownCells = {} => ret = Some(0)
        /\ (\E cell \in Cells : /\ ShownCells = {cell}
                                /\ player_spread[cell[1]][cell[2]][1].value = -2)
              => ret = Some(-2)

\* the score of a spread whose only face-up card is a -2, among face-down cards
C29_Witness ==
    /\ call.op = "score" /\ ret = Some(-2)
    /\ Cardinality(ShownCells) = 1
    /\ \E cell \in Cells \ ShownCells : player_spread[cell[1]][cell[2]] # None

\* two spreads with the same cells present, the same cells face-up and the same
\* values face-up
Alike(s1, s2) ==
    \A cell \in Cells :
        LET c1 == s1[cell[1]][cell[2]]
            c2 == s2[cell[1]][cell[2]]
        IN  /\ (c1 = None) = (c2 = None)
            /\ c1 # None =>
                  /\ c1[1].flipped = c2[1].flipped
                  /\ c1[1].flipped => c1[1].value = c2[1].value

\* C30: view shows a value only for a cell that holds a face-up card, and two
\* spreads alike in their present cells, their face-up cells and their face-up
\* values have the same view
C30_View ==
    call.op = "view" =>
        /\ \A cell \in Cells : ret[1][cell[1]][cell[2]] # None => cell \in ShownCells
        /\ \A other \in TestSpreads : Alike(player_spread, other) => Some(view(other)) = ret

\* the view of a spread that another spread is alike but not equal to
C30_Witness ==
    /\ call.op = "view"
    /\ \E other \in TestSpreads :
          /\ other # player_spread
          /\ Alike(player_spread, other)
          /\ Some(view(other)) = ret

\* an end_player_turn with Flip that comes to flip_at: the game is active, the
\* turn is the caller's and the caller holds a card
ComesToFlip ==
    /\ call'.op = "end_player_turn"
    /\ call'.action = "Flip"
    /\ state = "Active"
    /\ Caller # None
    /\ current_player_idx = Caller
    /\ players[Caller[1] + 1].holding # None

\* the cell of the caller's spread was flipped by the caller in an earlier turn.
\* Where the game is started with its first player named and the turns end with
\* Flip only, every card is dealt face-down and leaves that state by a flip of
\* its owner alone: a cell that no longer holds a face-down card was flipped.
FlippedEarlier(row, column) ==
    /\ InRows(row) /\ InColumns(column)
    /\ \/ Before[row][column] = None
       \/ Before[row][column][1].flipped

\* C21 (as claimed): an end_player_turn with Flip on a cell the same player
\* flipped in an earlier turn fails with CardAlreadyFlipped.
C21_Reflip ==
    [][(ComesToFlip /\ FlippedEarlier(call'.row, call'.column))
          => result' = "CardAlreadyFlipped"]_vars

\* C21 (amended): flip_at checks the row, the column, that a card is there and
\* that it is face-down, in this order; on a face-up card it fails with
\* CardAlreadyFlipped and the spread stays as it was; so a Flip on a cell the same
\* player flipped in an earlier turn fails with CardAlreadyFlipped, unless the
\* cell's column has been removed since, and then it fails with NoCardFound.
C21_ReflipOrColumnRemoved ==
    [][ComesToFlip =>
        LET row == call'.row
            column == call'.column
        IN  /\ result' = IF ~InRows(row) THEN "RowDoesntExist"
                         ELSE IF ~InColumns(column) THEN "ColumnDoesntExist"
                         ELSE IF Before[row][column] = None THEN "NoCardFound"
                         ELSE IF Before[row][column][1].flipped THEN "CardAlreadyFlipped"
                         ELSE "Ok"
            /\ result' = "CardAlreadyFlipped" => After = Before
            /\ FlippedEarlier(row, column) =>
                  result' = IF \A r \in 0 .. Rows - 1 : Before[r][column] = None
                            THEN "NoCardFound"
                            ELSE "CardAlreadyFlipped"]_vars

\* a player's third turn ended on CardAlreadyFlipped, the cell face-up
C21_Witness ==
    /\ call.op = "end_player_turn" /\ call.action = "Flip"
    /\ result = "CardAlreadyFlipped"
    /\ turns >= 3
    /\ \E i \in 1 .. Len(players) :
          /\ players[i].id = call.player_id
          /\ current_player_idx = Some(i - 1)
          /\ players[i].spread[call.row][call.column] # None
          /\ players[i].spread[call.row][call.column][1].flipped

\* the states the StateChanged events of a log carry, in the order of the log
NewStates(log) ==
    LET changes == SelectSeq(log, LAMBDA d : d.event.kind = "StateChanged")
    IN  [i \in 1 .. Len(changes) |-> changes[i].event.payload]

\* C24: with an observer registered, the call that changes the state hands the
\* observer one StateChanged per transition before it returns, each carrying the
\* state just entered, in the order of the transitions: the states notified
\* lead from the state before the call to the state after it (Startup then
\* Active for a start with a first-player index), and a call that notifies no
\* state leaves the state as it was
C24_StateChanged ==
    [][(call'.op # "" /\ subscriber # None) =>
        LET heard == NewStates(delivered')
            n == Len(heard)
        IN  /\ \A i \in 1 .. Len(delivered') : delivered'[i].to = subscriber[1]
            /\ n = 0 => state' = state
            /\ n > 0 =>
                  /\ heard[1] # state
                  /\ \A i \in 1 .. n - 1 : heard[i + 1] # heard[i]
                  /\ heard[n] = state'
            /\ (call'.op = "start" /\ state = "WaitingForPlayers" /\ result' = "Ok") =>
                  /\ n = 2
                  /\ heard[1] = "Startup"
                  /\ heard[2] = IF call'.options # None THEN "Active"
                                ELSE "DetermineFirstPlayer"]_vars

\* an observed start with a first-player index has notified Startup, then Active
C24_Witness ==
    /\ call.op = "start" /\ call.options # None /\ result = "Ok"
    /\ subscriber # None
    /\ state = "Active"
    /\ Len(delivered) = 2
    /\ delivered[1].event = [kind |-> "StateChanged", payload |-> "Startup"]
    /\ delivered[2].event = [kind |-> "StateChanged", payload |-> "Active"]

\* the game as it is, without its observer
Unobserved == [Game EXCEPT !.subscriber = None]

\* the call that has just run has returned and left what r holds
SameOutcome(r) ==
    /\ result' = r.result
    /\ state' = r.game.state
    /\ players' = r.game.players
    /\ current_player_idx' = r.game.current_player_idx
    /\ deck' = r.game.deck
    /\ discard_pile' = r.game.discard_pile
    /\ round' = r.game.round
    /\ finisher_idx' = r.game.finisher_idx
    /\ winner_idx' = r.game.winner_idx

\* the call that has just run has done what it does to a game without observer
AsUnobserved ==
    CASE call'.op = "add_player" ->
            SameOutcome(send_AddPlayer(Unobserved, call'.player_id))
      [] call'.op = "start" ->
            \E tape \in GameTapes : SameOutcome(handle_start(Unobserved, call'.options, tape))
      [] call'.op = "player_flip_to_determine_who_is_first" ->
            SameOutcome(player_flip_to_determine_who_is_first(
                            Unobserved, call'.player_id, call'.row, call'.column))
      [] call'.op = "start_player_turn" ->
            SameOutcome(start_player_turn(Unobserved, call'.player_id, call'.action))
      [] call'.op = "end_player_turn" ->
            SameOutcome(end_player_turn(Unobserved, call'.player_id, call'.action,
                                        call'.row, call'.column))
      [] call'.op = "handle_end" ->
            SameOutcome(Return(handle_end([Unobserved EXCEPT !.state = "Ended"]), "Ok"))
      [] OTHER -> UNCHANGED game

\* C25: the game holds one observer at most: subscribe puts its closure in the
\* place of the observer there was, unsubscribe leaves none, no other call
\* changes the observer; what a call emits goes to the observer held when it is
\* made and to nobody when none is held; and a call returns the same result and
\* leaves the same game with an observer as without
C25_OneObserver ==
    [][call'.op # "" =>
        /\ call'.op = "subscribe" => subscriber' = call'.arg
        /\ call'.op = "unsubscribe" => subscriber' = None
        /\ call'.op \notin {"subscribe", "unsubscribe"} => subscriber' = subscriber
        /\ \A i \in 1 .. Len(delivered') :
              subscriber # None /\ delivered'[i].to = subscriber[1]
        /\ AsUnobserved]_vars

\* g, which subscribed in the place of f, is the one to whom a call has emitted
C25_Witness ==
    /\ subscriber = Some("g")
    /\ delivered # <<>>
    /\ \A i \in 1 .. Len(delivered) : delivered[i].to = "g"

\* C31: hold on a player who holds nothing stores the card face-up; hold on a
\* player who holds a card fails with AlreadyHoldingCard and the card held stays;
\* release returns the card held, or nothing, and leaves the player holding
\* nothing; so a card held is face-up
C31_HoldRelease ==
    [][/\ call'.op = "hold" =>
            IF lone_player.holding = None
            THEN /\ result' = "Ok"
                 /\ lone_player'.holding =
                        Some([value |-> call'.arg[1].value, flipped |-> TRUE])
            ELSE /\ result' = "AlreadyHoldingCard"
                 /\ lone_player'.holding = lone_player.holding
       /\ call'.op = "release" => (ret' = lone_player.holding /\ lone_player'.holding = None)
       /\ call'.op \in {"hold", "release"} =>
            /\ lone_player'.id = lone_player.id
            /\ lone_player'.spread = lone_player.spread
            /\ lone_player'.holding # None => lone_player'.holding[1].flipped]_vars

\* a player who held a card was handed another, face-down, of another value
C31_Witness ==
    /\ call.op = "hold" /\ result = "AlreadyHoldingCard"
    /\ ~call.arg[1].flipped
    /\ lone_player.holding # None
    /\ lone_player.holding[1].flipped
    /\ lone_player.holding[1].value # call.arg[1].value

\* how many times the card is in the deck
CountOf(cards, card) == Cardinality({i \in 1 .. Len(cards) : cards[i] = card})

\* C32: the shuffle of a deck of ten cards or more leaves a deck of the same size
\* that holds each card as many times as before, whatever the generator hands out
C32_ShufflePreserves ==
    [][(call'.op = "shuffle" /\ Len(deck) >= 10) =>
        /\ result' = "Ok"
        /\ Len(deck') = Len(deck)
        /\ \A v \in CardValues, f \in BOOLEAN :
              CountOf(deck', [value |-> v, flipped |-> f])
                  = CountOf(deck, [value |-> v, flipped |-> f])]_vars

\* a deck of twenty cards shuffled with a split beside the middle is in another order
C32_Witness ==
    /\ call.op = "shuffle" /\ result = "Ok"
    /\ call.arg[1].variance = <<1>>
    /\ Len(deck) = 20
    /\ deck # SubSeq(DefaultDeck, 1, 20)

\* C33: the shuffle of a deck of any size from 0 to 10 ends without a fault
C33_NoFault == (call.op = "shuffle" /\ Len(deck) <= 10) => result = "Ok"

\* C34: once the cards are dealt, whatever is called and whether it fails or
\* not, a cell of a spread that holds a face-up card holds no face-down card
\* afterwards, and a cell that is absent stays absent
C34_OneWay ==
    [][Started =>
        /\ Len(players') = Len(players)
        /\ \A i \in 1 .. Len(players), cell \in Cells :
              LET before == players[i].spread[cell[1]][cell[2]]
                  after == players'[i].spread[cell[1]][cell[2]]
              IN  /\ before = None => after = None
                  /\ (before # None /\ before[1].flipped) =>
                        (after = None \/ after[1].flipped)]_vars

\* a player whose turn it was has tried to swap the held card into a cell of a
\* column that was removed
C34_Witness ==
    /\ call.op = "end_player_turn" /\ call.action = "Swap"
    /\ result = "NoCardFound"
    /\ \E i \in 1 .. Len(players) :
          /\ players[i].id = call.player_id
          /\ \A row \in 0 .. Rows - 1 : players[i].spread[row][call.column] = None

\* C35: the round counter increases by one when the last player of the list
\* ends a turn successfully, and is unchanged by every other call
C35_RoundCounts ==
    [][call'.op # "" =>
        round' = IF /\ call'.op = "end_player_turn"
                    /\ result' = "Ok"
                    /\ Caller = Some(Len(players) - 1)
                 THEN round + 1
                 ELSE round]_vars

\* C36: in the states Active and LastRound the current player's index is defined
\* and is the index of a player of the list
C36_ValidCurrent ==
    state \in {"Active", "LastRound"} =>
        /\ current_player_idx # None
        /\ current_player_idx[1] \in 0 .. Len(players) - 1

\* the cards that lie in the spreads, those the players hold and those that
\* column matches have removed: a cell of a dealt spread is absent only if its
\* column was removed, a swap filling the cell it has emptied
CardsInSpreads ==
    Cardinality({<<i, cell>> \in (1 .. Len(players)) \X Cells :
                    players[i].spread[cell[1]][cell[2]] # None})

CardsHeld == Cardinality({i \in 1 .. Len(players) : players[i].holding # None})

CardsRemoved ==
    Cardinality({<<i, cell>> \in (1 .. Len(players)) \X Cells :
                    players[i].spread[cell[1]][cell[2]] = None})

\* C37: once the game is started, the cards of the deck, of the discard pile, of
\* the spreads and of the players' hands, with the cards that column matches
\* have removed, are 150
C37_CardsConserved ==
    Started =>
        Len(deck) + Len(discard_pile) + CardsInSpreads + CardsHeld + CardsRemoved = FULL_SIZE

\* C38: no operation returns and leaves the game in the state Startup
C38_StartupTransient == state # "Startup"

\* the players who hold a card
Holders == {i \in 1 .. Len(players) : players[i].holding # None}

\* C39: one player at most holds a card, and a player who holds one is the
\* current player of an active game, whose turn was started and has not ended
C39_OneHolder ==
    /\ Cardinality(Holders) <= 1
    /\ \A i \in Holders :
          /\ state = "Active"
          /\ current_player_idx = Some(i - 1)
          /\ turn_open = Some(i - 1)

\* the current player of an active game holds the card drawn, and nobody else one
C39_Witness ==
    /\ state = "Active"
    /\ call.op = "start_player_turn" /\ result = "Ok"
    /\ turns = 2
    /\ \E i \in 1 .. Len(players) : Holders = {i} /\ players[i].id = call.player_id

\* the columns of three face-up cards of one value that lie in a spread
MatchingColumns ==
    {<<i, column>> \in (1 .. Len(players)) \X (0 .. Columns - 1) :
        \A row \in 0 .. Rows - 1 :
            /\ players[i].spread[row][column] # None
            /\ players[i].spread[row][column][1].flipped
            /\ players[i].spread[0][column] # None
            /\ players[i].spread[row][column][1].value = players[i].spread[0][column][1].value}

\* C40: while players determine who is first and while the game is played, no
\* spread holds a column of three face-up cards of one value: the
\* end_player_turn that completes such a column removes it
C40_NoMatchingColumn ==
    state \in {"DetermineFirstPlayer", "Active", "LastRound"} => MatchingColumns = {}

\* a turn has ended on the removal of the column it completed
C40_Witness ==
    /\ call.op = "end_player_turn" /\ result = "Ok"
    /\ state = "Active"
    /\ \E i \in 1 .. Len(players) :
          /\ players[i].id = call.player_id
          /\ \A row \in 0 .. Rows - 1 : players[i].spread[row][call.column] = None

====
